---- MODULE Spec2Model ----
(***************************************************************************)
(* Dynamic forwarding proxy (src/src/app.js): one inbound request goes     *)
(* through the Express middleware chain, the /health route and the proxy   *)
(* handler; a forwarded request then receives the outbound request's       *)
(* 'response', 'error' and 'timeout' events.                               *)
(*                                                                         *)
(* Strings are sequences of one-character strings, so that splitting,      *)
(* percent-decoding and URL parsing are computed and not assumed.          *)
(***************************************************************************)
EXTENDS Integers, Sequences, FiniteSets, TLC

\* ------------------------------------------------------------------ bounds
\* Longest tail (in pieces) appended to a URL prefix when inbound paths are
\* enumerated.
MaxTail == 2

\* ------------------------------------------------------------- characters
HexDigits ==
  {"0","1","2","3","4","5","6","7","8","9",
   "A","B","C","D","E","F","a","b","c","d","e","f"}

Digits == {"0","1","2","3","4","5","6","7","8","9"}

Letters ==
  {"a","b","c","d","e","f","g","h","i","j","k","l","m","n","o","p","q","r",
   "s","t","u","v","w","x","y","z","A","B","C","D","E","F"}

\* The escapes of the modelled alphabet: %XX -> character (all ASCII).
EscapePairs ==
  { <<"2","5">>, <<"2","6">>, <<"2","F">>, <<"3","A">>, <<"3","D">>, <<"3","F">> }

Unescape(p) ==
  CASE p = <<"2","5">> -> "%"
    [] p = <<"2","6">> -> "&"
    [] p = <<"2","F">> -> "/"
    [] p = <<"3","A">> -> ":"
    [] p = <<"3","D">> -> "="
    [] p = <<"3","F">> -> "?"

Escape(c) ==
  CASE c = "%" -> <<"%","2","5">>
    [] c = "&" -> <<"%","2","6">>
    [] c = "/" -> <<"%","2","F">>
    [] c = ":" -> <<"%","3","A">>
    [] c = "=" -> <<"%","3","D">>
    [] c = "?" -> <<"%","3","F">>
    [] OTHER   -> <<c>>

\* ------------------------------------------------------ string primitives
\* First index >= from whose character is in set, Len(s)+1 when there is none.
RECURSIVE IndexOfAny(_, _, _)
IndexOfAny(s, set, from) ==
  IF from > Len(s) THEN Len(s) + 1
  ELSE IF s[from] \in set THEN from
  ELSE IndexOfAny(s, set, from + 1)

Includes(s, c) == IndexOfAny(s, {c}, 1) <= Len(s)

StartsWith(s, c) == Len(s) >= 1 /\ s[1] = c

\* s.slice(i) with 1-based i.
SliceFrom(s, i) == SubSeq(s, i, Len(s))

\* A percent sign is followed by two hex digits that form a decodable
\* escape everywhere from index i on (decodeURIComponent throws URIError
\* otherwise).
RECURSIVE WellEscapedFrom(_, _)
WellEscapedFrom(s, i) ==
  IF i > Len(s) THEN TRUE
  ELSE IF s[i] = "%"
    THEN /\ i + 2 <= Len(s)
         /\ s[i+1] \in HexDigits
         /\ s[i+2] \in HexDigits
         /\ <<s[i+1], s[i+2]>> \in EscapePairs
         /\ WellEscapedFrom(s, i + 3)
    ELSE WellEscapedFrom(s, i + 1)

DecodeThrows(s) == ~WellEscapedFrom(s, 1)

RECURSIVE DecodeFrom(_, _)
DecodeFrom(s, i) ==
  IF i > Len(s) THEN << >>
  ELSE IF s[i] = "%"
    THEN <<Unescape(<<s[i+1], s[i+2]>>)>> \o DecodeFrom(s, i + 3)
    ELSE <<s[i]>> \o DecodeFrom(s, i + 1)

\* decodeURIComponent on input that does not throw.
decodeURIComponent(s) == DecodeFrom(s, 1)

RECURSIVE encodeURIComponent(_)
encodeURIComponent(s) ==
  IF s = << >> THEN << >>
  ELSE Escape(Head(s)) \o encodeURIComponent(Tail(s))

\* ------------------------------------------------------------ URL parsing
\* new URL(input) without a base, for the modelled alphabet: no '#', '@',
\* '\', '[' or '.', no non-ASCII characters, no all-numeric (IPv4) hosts.
Lower(c) ==
  CASE c = "A" -> "a" [] c = "B" -> "b" [] c = "C" -> "c"
    [] c = "D" -> "d" [] c = "E" -> "e" [] c = "F" -> "f"
    [] OTHER -> c

LowerAll(s) == [i \in 1..Len(s) |-> Lower(s[i])]

http  == <<"h","t","t","p">>
https == <<"h","t","t","p","s">>
ftp   == <<"f","t","p">>
file  == <<"f","i","l","e">>

SpecialSchemes == {http, https, ftp, file}

DigitValue(c) ==
  CASE c = "0" -> 0 [] c = "1" -> 1 [] c = "2" -> 2 [] c = "3" -> 3
    [] c = "4" -> 4 [] c = "5" -> 5 [] c = "6" -> 6 [] c = "7" -> 7
    [] c = "8" -> 8 [] c = "9" -> 9

RECURSIVE ParseInt(_)
ParseInt(s) ==
  IF s = << >> THEN 0
  ELSE 10 * ParseInt(SubSeq(s, 1, Len(s) - 1)) + DigitValue(s[Len(s)])

RECURSIVE StripLeadingZeros(_)
StripLeadingZeros(s) ==
  IF Len(s) > 1 /\ s[1] = "0" THEN StripLeadingZeros(Tail(s)) ELSE s

DefaultPort(scheme) ==
  CASE scheme = http  -> 80
    [] scheme = https -> 443
    [] scheme = ftp   -> 21
    [] OTHER          -> -1

\* The host parser percent-decodes the host before it looks for forbidden
\* code points; a '%' that starts no escape stays.
RECURSIVE PercentDecodeLenient(_, _)
PercentDecodeLenient(s, i) ==
  IF i > Len(s) THEN << >>
  ELSE IF /\ s[i] = "%"
          /\ i + 2 <= Len(s)
          /\ <<s[i+1], s[i+2]>> \in EscapePairs
    THEN <<Unescape(<<s[i+1], s[i+2]>>)>> \o PercentDecodeLenient(s, i + 3)
    ELSE <<s[i]>> \o PercentDecodeLenient(s, i + 1)

RECURSIVE SkipSlashes(_, _)
SkipSlashes(s, i) ==
  IF i <= Len(s) /\ s[i] = "/" THEN SkipSlashes(s, i + 1) ELSE i

ForbiddenDomainChars == {"%", "/", ":", "?"}

InvalidURL == [ok |-> FALSE]

ParseURL(s) ==
  LET c      == IndexOfAny(s, {":"}, 1)
      scheme == LowerAll(SubSeq(s, 1, c - 1))
      schemeOk ==
        /\ c <= Len(s)
        /\ c > 1
        /\ s[1] \in Letters
        /\ \A i \in 1..(c - 1) : s[i] \in Letters \cup Digits
      rest    == SliceFrom(s, c + 1)
      special == scheme \in SpecialSchemes
      \* special schemes skip every leading slash; others take an authority
      \* only after exactly "//"
      a == IF special THEN SkipSlashes(rest, 1) ELSE 3
      hasAuth == special \/ (Len(rest) >= 2 /\ rest[1] = "/" /\ rest[2] = "/")
      authEnd == IF hasAuth THEN IndexOfAny(rest, {"/", "?"}, a) ELSE 1
      auth    == IF hasAuth THEN SubSeq(rest, a, authEnd - 1) ELSE << >>
      colon   == IndexOfAny(auth, {":"}, 1)
      hostRaw == SubSeq(auth, 1, colon - 1)
      hasPort == colon <= Len(auth)
      portRaw == SubSeq(auth, colon + 1, Len(auth))
      hostDec == IF special THEN LowerAll(PercentDecodeLenient(hostRaw, 1)) ELSE hostRaw
      hostOk  ==
        /\ (special /\ scheme # file) => hostDec # << >>
        /\ hasPort => hostRaw # << >>
        /\ special => \A i \in 1..Len(hostDec) : hostDec[i] \notin ForbiddenDomainChars
      portOk  ==
        /\ \A i \in 1..Len(portRaw) : portRaw[i] \in Digits
        /\ scheme = file => ~hasPort
        /\ ParseInt(portRaw) <= 65535
      port    == IF portRaw = << >> \/ ParseInt(portRaw) = DefaultPort(scheme)
                   THEN << >>
                   ELSE StripLeadingZeros(portRaw)
      qi      == IndexOfAny(rest, {"?"}, authEnd)
      pathRaw == SubSeq(rest, authEnd, qi - 1)
      query   == SliceFrom(rest, qi)
  IN  IF ~schemeOk \/ ~hostOk \/ (hasPort /\ ~portOk) THEN InvalidURL
      ELSE [ ok       |-> TRUE,
             protocol |-> scheme \o <<":">>,
             hostname |-> hostDec,
             port     |-> port,
             host     |-> IF port = << >> THEN hostDec ELSE hostDec \o <<":">> \o port,
             pathname |-> IF special /\ pathRaw = << >> THEN <<"/">> ELSE pathRaw,
             search   |-> IF Len(query) <= 1 THEN << >> ELSE query ]

\* --------------------------------------------------------------- bodies
\* A parsed body is a sequence of key/value pairs; str tells a string value
\* from a number.
Quote == "\""

RECURSIVE StripSpaces(_)
StripSpaces(s) ==
  IF s = << >> THEN << >>
  ELSE IF Head(s) = " " THEN StripSpaces(Tail(s))
  ELSE <<Head(s)>> \o StripSpaces(Tail(s))

\* JSON.parse for the modelled fragment: {} and {"k":d} with optional
\* blanks between tokens; everything else is a SyntaxError.
JsonShape(s) ==
  LET t == StripSpaces(s)
  IN  IF t = <<"{", "}">> THEN "empty"
      ELSE IF /\ Len(t) = 7
              /\ t[1] = "{" /\ t[2] = Quote /\ t[3] \in Letters /\ t[4] = Quote
              /\ t[5] = ":" /\ t[6] \in Digits /\ t[7] = "}"
        THEN "pair"
      ELSE "error"

JsonParse(s) ==
  LET t == StripSpaces(s)
  IN  IF JsonShape(s) = "pair"
        THEN << [k |-> <<t[3]>>, v |-> <<t[6]>>, str |-> FALSE] >>
        ELSE << >>

\* qs.parse for a body without '&': one key, the text before the first '=',
\* with the rest as its string value.
QsParse(s) ==
  LET e == IndexOfAny(s, {"="}, 1)
  IN  IF s = << >> THEN << >>
      ELSE << [k |-> SubSeq(s, 1, e - 1), v |-> SliceFrom(s, e + 1), str |-> TRUE] >>

RECURSIVE JsonEscape(_)
JsonEscape(s) ==
  IF s = << >> THEN << >>
  ELSE (IF Head(s) \in {Quote, "\\"} THEN <<"\\", Head(s)>> ELSE <<Head(s)>>)
       \o JsonEscape(Tail(s))

JsonString(s) == <<Quote>> \o JsonEscape(s) \o <<Quote>>

RECURSIVE JsonMembers(_)
JsonMembers(obj) ==
  IF obj = << >> THEN << >>
  ELSE JsonString(Head(obj).k) \o <<":">>
       \o (IF Head(obj).str THEN JsonString(Head(obj).v) ELSE Head(obj).v)
       \o (IF Len(obj) > 1 THEN <<",">> ELSE << >>)
       \o JsonMembers(Tail(obj))

\* JSON.stringify of a parsed body.
JsonStringify(obj) == <<"{">> \o JsonMembers(obj) \o <<"}">>

NoBody == [present |-> FALSE]
Bytes(text) == [present |-> TRUE, text |-> text]

\* limit: '10mb' of the three body parsers, in bytes.
BodyLimit == 10485760

\* A body of one byte more than the limit; its bytes are not spelled out.
OversizeBody == [present |-> TRUE, text |-> << >>, size |-> BodyLimit + 1]

\* The length of a body in bytes.
BodySize(raw) ==
  IF ~raw.present THEN 0
  ELSE IF "size" \in DOMAIN raw THEN raw.size
  ELSE Len(raw.text)

CtJson == "application/json"
CtForm == "application/x-www-form-urlencoded"
CtText == "text/plain"

\* typeis.hasBody: a content-length or a transfer-encoding header is there.
HasBody(headers) ==
  "content-length" \in DOMAIN headers \/ "transfer-encoding" \in DOMAIN headers

ContentType(headers) ==
  IF "content-type" \in DOMAIN headers THEN headers["content-type"] ELSE "none"

\* The three body parsers in their order.  Each starts with
\* req.body = req.body || {}, skips a request without a body or of another
\* type, and leaves the parsed value in req.body.
BodyParsers(headers, raw) ==
  LET ct   == ContentType(headers)
      text == IF raw.present THEN raw.text ELSE << >>
  IN  IF ~HasBody(headers) \/ ct = "none"
        THEN [err |-> FALSE, body |-> [kind |-> "object", obj |-> << >>]]
      ELSE IF BodySize(raw) > BodyLimit
        THEN [err |-> TRUE]
      ELSE IF ct = CtJson
        THEN IF text = << >>
               THEN [err |-> FALSE, body |-> [kind |-> "object", obj |-> << >>]]
             ELSE IF JsonShape(text) = "error"
               THEN [err |-> TRUE]
             ELSE [err |-> FALSE,
                   body |-> [kind |-> "object", obj |-> JsonParse(text)]]
      ELSE IF ct = CtForm
        THEN [err |-> FALSE, body |-> [kind |-> "object", obj |-> QsParse(text)]]
      ELSE [err |-> FALSE, body |-> [kind |-> "buffer", bytes |-> text]]

\* --------------------------------------------------- the proxy handler
Methods == {"GET", "POST", "PUT", "PATCH", "DELETE", "HEAD", "OPTIONS"}

BodyMethods == {"POST", "PUT", "PATCH", "DELETE"}

AllowedProtocols == { http \o <<":">>, https \o <<":">> }

\* req.originalUrl without its leading '/'.
UrlPath(url) == IF StartsWith(url, "/") THEN SliceFrom(url, 2) ELSE url

\* urlPath.split('/')[0]
TargetBaseUrl(urlPath) == SubSeq(urlPath, 1, IndexOfAny(urlPath, {"/"}, 1) - 1)

\* "/" + urlPath.split('/').slice(1).join('/') when urlPath has a '/'.
TargetPath(urlPath) ==
  IF Includes(urlPath, "/")
    THEN SliceFrom(urlPath, IndexOfAny(urlPath, {"/"}, 1))
    ELSE << >>

\* The base joined to the path without having been decoded.
FinalTargetUrlUndecoded(urlPath) ==
  TargetBaseUrl(urlPath) \o TargetPath(urlPath)

\* The whole of urlPath decoded, path and query with the base.
FinalTargetUrlWholeDecoded(urlPath) ==
  decodeURIComponent(urlPath)

\* The string handed to new URL().
FinalTargetUrl(urlPath) ==
  decodeURIComponent(TargetBaseUrl(urlPath)) \o TargetPath(urlPath)

\* The chain without its check for an empty path.
ResolveWithoutMissingCheck(url) ==
  LET urlPath == UrlPath(url)
  IN  IF DecodeThrows(TargetBaseUrl(urlPath)) THEN "threw"
      ELSE IF DecodeThrows(urlPath) THEN "Invalid URL encoding"
      ELSE IF ~ParseURL(FinalTargetUrl(urlPath)).ok THEN "Invalid target URL"
      ELSE IF ParseURL(FinalTargetUrl(urlPath)).protocol \notin AllowedProtocols
        THEN "Invalid protocol"
      ELSE "forward"

\* The chain with new URL() outside a try block of its own: its TypeError
\* reaches the outer catch.
ResolveUncaughtParse(url) ==
  LET urlPath == UrlPath(url)
  IN  IF DecodeThrows(TargetBaseUrl(urlPath)) THEN "threw"
      ELSE IF urlPath = << >> THEN "Missing target URL"
      ELSE IF DecodeThrows(urlPath) THEN "Invalid URL encoding"
      ELSE IF ~ParseURL(FinalTargetUrl(urlPath)).ok THEN "threw"
      ELSE IF ParseURL(FinalTargetUrl(urlPath)).protocol \notin AllowedProtocols
        THEN "Invalid protocol"
      ELSE "forward"

\* The validation chain in the order the handler runs it.  "threw" is the
\* URIError of the first decodeURIComponent, which only the outer catch sees.
Resolve(url) ==
  LET urlPath == UrlPath(url)
  IN  IF DecodeThrows(TargetBaseUrl(urlPath)) THEN "threw"
      ELSE IF urlPath = << >> THEN "Missing target URL"
      ELSE IF DecodeThrows(urlPath) THEN "Invalid URL encoding"
      ELSE IF ~ParseURL(FinalTargetUrl(urlPath)).ok THEN "Invalid target URL"
      ELSE IF ParseURL(FinalTargetUrl(urlPath)).protocol \notin AllowedProtocols
        THEN "Invalid protocol"
      ELSE "forward"

ResolveStatus(outcome) ==
  CASE outcome = "threw"   -> 500
    [] outcome = "forward" -> 0
    [] OTHER               -> 400

ResolveError(outcome) ==
  IF outcome = "threw" THEN "Internal server error" ELSE outcome

\* The hop-by-hop names alone, the forwarding-identity headers left in.
HopByHopRequestHeaders ==
  {"host", "connection", "keep-alive", "proxy-authenticate",
   "proxy-authorization", "te", "trailers", "transfer-encoding", "upgrade"}

StrippedRequestHeaders ==
  {"host", "connection", "keep-alive", "proxy-authenticate",
   "proxy-authorization", "te", "trailers", "transfer-encoding", "upgrade",
   "x-forwarded-for", "x-forwarded-host", "x-forwarded-proto"}

\* The host header set to the target's hostname, its port left out.
SanitizeHeadersHostname(headers, parsedUrl) ==
  [h \in (DOMAIN headers \ StrippedRequestHeaders) \cup {"host"} |->
     IF h = "host" THEN parsedUrl.hostname ELSE headers[h]]

\* The sanitization passing the host the caller used on as x-forwarded-host.
SanitizeHeadersForwardsHost(headers, parsedUrl) ==
  [h \in (DOMAIN headers \ StrippedRequestHeaders) \cup {"host", "x-forwarded-host"} |->
     CASE h = "host"             -> parsedUrl.host
       [] h = "x-forwarded-host" -> headers["host"]
       [] OTHER                  -> headers[h]]

\* forwardHeaders before the body is prepared.
SanitizeHeaders(headers, parsedUrl) ==
  [h \in (DOMAIN headers \ StrippedRequestHeaders) \cup {"host"} |->
     IF h = "host" THEN parsedUrl.host ELSE headers[h]]

\* requestBody prepared from req.body whatever the method.
RequestBodyAnyMethod(meth, body) ==
  IF body.kind # "undefined"
    THEN CASE body.kind = "string" -> [bytes |-> body.bytes, truthy |-> body.bytes # << >>]
           [] body.kind = "buffer" -> [bytes |-> body.bytes, truthy |-> TRUE]
           [] body.kind = "object" -> [bytes |-> JsonStringify(body.obj), truthy |-> TRUE]
    ELSE [bytes |-> << >>, truthy |-> FALSE]

\* requestBody: "" unless the method carries a body and req.body is defined.
\* bytes is what proxyRequest.write() gets, truthy is JavaScript's
\* if (requestBody): an empty string is falsy, a Buffer of any length is not.
RequestBody(meth, body) ==
  IF meth \in BodyMethods /\ body.kind # "undefined"
    THEN CASE body.kind = "string" -> [bytes |-> body.bytes, truthy |-> body.bytes # << >>]
           [] body.kind = "buffer" -> [bytes |-> body.bytes, truthy |-> TRUE]
           [] body.kind = "object" -> [bytes |-> JsonStringify(body.obj), truthy |-> TRUE]
    ELSE [bytes |-> << >>, truthy |-> FALSE]

Reserialized(meth, body) ==
  meth \in BodyMethods /\ body.kind = "object"

\* forwardHeaders with a via header of the proxy added to them.
ForwardHeadersWithVia(meth, headers, body, parsedUrl) ==
  LET h0 == SanitizeHeaders(headers, parsedUrl)
      h1 == IF Reserialized(meth, body) /\ "content-type" \notin DOMAIN h0
              THEN [h \in DOMAIN h0 \cup {"content-type"} |->
                      IF h = "content-type" THEN CtJson ELSE h0[h]]
              ELSE h0
      rb == RequestBody(meth, body)
      h2 == IF rb.truthy
              THEN [h \in DOMAIN h1 \cup {"content-length"} |->
                      IF h = "content-length" THEN Len(rb.bytes) ELSE h1[h]]
              ELSE h1
  IN  [h \in DOMAIN h2 \cup {"via"} |-> IF h = "via" THEN "1.1 proxy" ELSE h2[h]]

\* forwardHeaders whose content-type is application/json for every
\* re-serialized body, whatever the caller declared.
ForwardHeadersForceJson(meth, headers, body, parsedUrl) ==
  LET h0 == SanitizeHeaders(headers, parsedUrl)
      h1 == IF Reserialized(meth, body)
              THEN [h \in DOMAIN h0 \cup {"content-type"} |->
                      IF h = "content-type" THEN CtJson ELSE h0[h]]
              ELSE h0
      rb == RequestBody(meth, body)
  IN  IF rb.truthy
        THEN [h \in DOMAIN h1 \cup {"content-length"} |->
                IF h = "content-length" THEN Len(rb.bytes) ELSE h1[h]]
        ELSE h1

\* forwardHeaders as handed to httpModule.request.
ForwardHeaders(meth, headers, body, parsedUrl) ==
  LET h0 == SanitizeHeaders(headers, parsedUrl)
      h1 == IF Reserialized(meth, body) /\ "content-type" \notin DOMAIN h0
              THEN [h \in DOMAIN h0 \cup {"content-type"} |->
                      IF h = "content-type" THEN CtJson ELSE h0[h]]
              ELSE h0
      rb == RequestBody(meth, body)
  IN  IF rb.truthy
        THEN [h \in DOMAIN h1 \cup {"content-length"} |->
                IF h = "content-length" THEN Len(rb.bytes) ELSE h1[h]]
        ELSE h1

\* requestOptions with the port of the scheme, whatever port the URL names.
RequestOptionsSchemePort(meth, headers, body, parsedUrl) ==
  [ tls      |-> parsedUrl.protocol = https \o <<":">>,
    hostname |-> parsedUrl.hostname,
    port     |-> IF parsedUrl.protocol = https \o <<":">> THEN 443 ELSE 80,
    path     |-> parsedUrl.pathname \o parsedUrl.search,
    method   |-> meth,
    headers  |-> ForwardHeaders(meth, headers, body, parsedUrl) ]

\* requestOptions
RequestOptions(meth, headers, body, parsedUrl) ==
  [ tls      |-> parsedUrl.protocol = https \o <<":">>,
    hostname |-> parsedUrl.hostname,
    port     |-> IF parsedUrl.port # << >> THEN ParseInt(parsedUrl.port)
                 ELSE IF parsedUrl.protocol = https \o <<":">> THEN 443 ELSE 80,
    path     |-> parsedUrl.pathname \o parsedUrl.search,
    method   |-> meth,
    headers  |-> ForwardHeaders(meth, headers, body, parsedUrl) ]

\* proxyRequest.on('error'): the caller-facing status for an error code.
ErrorCodes ==
  {"ECONNABORTED", "ETIMEDOUT", "ENOTFOUND", "ECONNREFUSED", "ECONNRESET", "EPIPE"}

\* A refused connection classified with the unexpected errors.
ClassifyErrorRefusedAs500(code) ==
  IF code \in {"ECONNABORTED", "ETIMEDOUT"} THEN 408
  ELSE IF code \in {"ENOTFOUND"} THEN 502
  ELSE 500

ClassifyError(code) ==
  IF code \in {"ECONNABORTED", "ETIMEDOUT"} THEN 408
  ELSE IF code \in {"ENOTFOUND", "ECONNREFUSED"} THEN 502
  ELSE 500

StatusError(status) ==
  CASE status = 408 -> "Request timeout"
    [] status = 502 -> "Bad Gateway"
    [] OTHER        -> "Internal server error"

StrippedResponseHeaders ==
  {"connection", "keep-alive", "proxy-authenticate", "proxy-authorization",
   "te", "trailers", "transfer-encoding", "upgrade"}

\* Express's res.set(): a content-type without a charset parameter gets
\* '; charset=utf-8' when its type is text/* or application/json.
AddCharset(value) ==
  CASE value = "application/json" -> "application/json; charset=utf-8"
    [] value = "text/plain"       -> "text/plain; charset=utf-8"
    [] OTHER                      -> value

ResSet(field, value) ==
  IF field = "content-type" THEN AddCharset(value) ELSE value

\* The headers on res after the forEach over responseHeaders.
ResponseHeaders(headers) ==
  [h \in DOMAIN headers \ StrippedResponseHeaders |-> ResSet(h, headers[h])]

\* ---------------------------------------------------------------- inputs
\* Decoded target URLs are a prefix followed by at most MaxTail pieces.
UrlPrefixes ==
  { << >>,
    <<"x">>,
    <<"h","e","a","l","t","h">>,
    <<"x",":","8">>,
    <<"h","t","t","p",":","/","/">>,
    <<"h","t","t","p",":","/","/","x">>,
    <<"h","t","t","p",":","/","/","x",":","8">>,
    <<"h","t","t","p",":","/","/","x",":","8","0">>,
    <<"h","t","t","p","s",":","/","/","x">>,
    <<"h","t","t","p","s",":","/","/","x",":","8","0">>,
    <<"f","t","p",":","/","/","x">> }

TailPieces ==
  { <<"/">>, <<"p">>, <<"?">>, <<"&">>, <<"%">>, <<"%","2","F">> }

RECURSIVE TailsUpTo(_)
TailsUpTo(n) ==
  IF n = 0 THEN { << >> }
  ELSE TailsUpTo(n - 1) \cup { t \o q : t \in TailsUpTo(n - 1), q \in TailPieces }

Urls == { pre \o t : pre \in UrlPrefixes, t \in TailsUpTo(MaxTail) }

\* What follows the leading '/' of req.originalUrl: a URL sent as it is, sent
\* through encodeURIComponent (src/unnamed/part_000:46), or sent in the
\* README's form, an encoded base followed by a plain path.
Paths ==
  Urls \cup { encodeURIComponent(u) : u \in Urls }
       \cup { encodeURIComponent(pre) \o t :
                pre \in UrlPrefixes, t \in TailsUpTo(MaxTail) }

BodyTexts ==
  { << >>,
    <<"h","i">>,
    <<"a","=","1">>,
    <<"{", Quote, "a", Quote, ":", "1", "}">>,
    <<"{", " ", Quote, "a", Quote, ":", "1", " ", "}">>,
    <<"{", Quote, "a", Quote, ":">> }

InboundBodies == {NoBody, OversizeBody} \cup { Bytes(t) : t \in BodyTexts }

ContentTypes == {"none", CtJson, CtForm, CtText}

\* Headers a caller sends besides host and those of its body: none, or an
\* authorization, a trace id and every header the handler deletes.
ExtraHeaders ==
  { {},
    {"authorization", "x-request-id", "connection", "keep-alive",
     "proxy-authenticate", "proxy-authorization", "te", "trailers",
     "transfer-encoding", "upgrade", "x-forwarded-for", "x-forwarded-host",
     "x-forwarded-proto"} }

ExtraValue(h) ==
  CASE h = "authorization"       -> "Basic dGVzdDp0ZXN0"
    [] h = "x-request-id"        -> "r1"
    [] h = "connection"          -> "keep-alive"
    [] h = "keep-alive"          -> "timeout=5"
    [] h = "proxy-authenticate"  -> "Basic"
    [] h = "proxy-authorization" -> "Basic cHJveHk6cHJveHk="
    [] h = "te"                  -> "trailers"
    [] h = "trailers"            -> "x-checksum"
    [] h = "transfer-encoding"   -> "chunked"
    [] h = "upgrade"             -> "websocket"
    [] h = "x-forwarded-for"     -> "10.0.0.1"
    [] h = "x-forwarded-host"    -> "caller.example"
    [] h = "x-forwarded-proto"   -> "https"

ProxyHost == <<"p","r","o","x","y">>

\* The inbound header map of a request with this content type and body; a
\* body sent chunked has a transfer-encoding and no content-length.
InboundHeaders(ct, raw, extra) ==
  [h \in {"host"} \cup extra
         \cup (IF ct = "none" THEN {} ELSE {"content-type"})
         \cup (IF raw.present /\ "transfer-encoding" \notin extra
                 THEN {"content-length"} ELSE {}) |->
     CASE h = "host"           -> ProxyHost
       [] h = "content-type"   -> ct
       [] h = "content-length" -> BodySize(raw)
       [] OTHER                -> ExtraValue(h)]

PlainTarget == <<"/">> \o encodeURIComponent(<<"h","t","t","p",":","/","/","x","/","p">>)

UrlRequests ==
  { [url |-> <<"/">> \o path, method |-> m,
     headers |-> InboundHeaders("none", NoBody, {}), body |-> NoBody] :
      path \in Paths, m \in {"GET"} }

BodyRequests ==
  { [url |-> u, method |-> m,
     headers |-> InboundHeaders(ct, raw, extra), body |-> raw] :
      u \in {PlainTarget, <<"/">>, <<"/","h","e","a","l","t","h">>}, m \in Methods, ct \in ContentTypes,
      raw \in InboundBodies, extra \in ExtraHeaders }

Requests == UrlRequests \cup BodyRequests

\* Status codes a target answers with; 99 is a status line such as
\* 'HTTP/1.1 099 X', which Node's parser reads without a range check.
TargetStatuses == {99, 200, 404, 408, 500, 502}

TargetHeaders ==
  { [h \in {"content-type"} |-> CtJson],
    [h \in {"content-type", "x-forwarded-for", "etag"}
            \cup StrippedResponseHeaders |->
       CASE h = "content-type"        -> CtText
         [] h = "x-forwarded-for"     -> "10.0.0.9"
         [] h = "etag"                -> "W/1"
         [] h = "connection"          -> "close"
         [] h = "keep-alive"          -> "timeout=5"
         [] h = "proxy-authenticate"  -> "Basic"
         [] h = "proxy-authorization" -> "Basic dDp0"
         [] h = "te"                  -> "trailers"
         [] h = "trailers"            -> "x-checksum"
         [] h = "transfer-encoding"   -> "chunked"
         [] h = "upgrade"             -> "h2c"] }

\* Chunks of a response body the model lets through before the end.
MaxChunks == 2

\* ----------------------------------------------------------------- state
VARIABLES
  req,      \* the inbound request: url (req.originalUrl), method, headers, body
  pc,       \* where the request is in the Express stack
  reqBody,  \* req.body
  res,      \* the caller-facing response
  out,      \* the outbound request (proxyRequest) and what it has received
  crashed,  \* an exception escaped an event listener: the process is gone
  peer      \* another request in flight on the same process, if there is one

vars == <<req, pc, reqBody, res, out, crashed, peer>>

NoHeaders == [h \in {} |-> ""]

NoRequest ==
  [state |-> "none", gotResponse |-> FALSE, hangUp |-> FALSE, status |-> 0,
   headers |-> NoHeaders]

Init ==
  /\ req \in Requests
  /\ pc = "cors"
  /\ reqBody = [kind |-> "undefined"]
  /\ res = [statusCode |-> 200, headersSent |-> FALSE, ended |-> FALSE,
            error |-> "none", by |-> "none", headers |-> NoHeaders, chunks |-> 0,
            closed |-> FALSE]
  /\ out = NoRequest
  /\ crashed = FALSE
  /\ peer = "none"

\* res.status(status).json({error, ...}); once the caller's connection is
\* closed the response is destroyed, the write of the body is dropped and
\* no head is ever sent.
SendJson(r, status, error, by) ==
  IF r.closed
    THEN [r EXCEPT !.statusCode = status]
    ELSE [r EXCEPT !.statusCode = status, !.headersSent = TRUE, !.ended = TRUE,
                   !.error = error, !.by = by]

\* app.use(cors()): an OPTIONS request is answered as a preflight.
Cors ==
  /\ pc = "cors"
  /\ ~crashed
  /\ IF req.method = "OPTIONS"
       THEN /\ res' = [res EXCEPT !.statusCode = 204, !.headersSent = TRUE,
                                  !.ended = TRUE, !.by = "cors"]
            /\ pc' = "done"
       ELSE /\ res' = res
            /\ pc' = "parse"
  /\ UNCHANGED <<req, reqBody, out, crashed, peer>>

\* express.json, express.urlencoded, express.raw; a parser's error goes to
\* the error-handling middleware.
ParseBody ==
  /\ pc = "parse"
  /\ ~crashed
  /\ LET r == BodyParsers(req.headers, req.body)
     IN  IF r.err
           THEN /\ pc' = "error"
                /\ reqBody' = [kind |-> "object", obj |-> << >>]
           ELSE /\ pc' = "route"
                /\ reqBody' = r.body
  /\ UNCHANGED <<req, res, out, crashed, peer>>

ErrorMiddleware ==
  /\ pc = "error"
  /\ ~crashed
  /\ res' = SendJson(res, 500, "Internal server error", "error-middleware")
  /\ pc' = "done"
  /\ UNCHANGED <<req, reqBody, out, crashed, peer>>

\* app.get('/health') matches GET and HEAD on the path, whatever the query
\* and with or without a trailing slash.
Health == <<"/","h","e","a","l","t","h">>

\* The path Express routes on: the url up to its query.
Pathname(url) == SubSeq(url, 1, IndexOfAny(url, {"?"}, 1) - 1)

HealthRouteMatches(r) ==
  /\ r.method \in {"GET", "HEAD"}
  /\ Pathname(r.url) \in {Health, Health \o <<"/">>}

\* Mounting the handler on '*' makes Express decode the whole path as the
\* route's parameter before it calls the handler; a path it cannot decode
\* is an error for the error-handling middleware.
StarLayerThrows(r) == DecodeThrows(Pathname(r.url))

StarLayerError ==
  /\ pc = "route"
  /\ ~crashed
  /\ ~HealthRouteMatches(req)
  /\ StarLayerThrows(req)
  /\ pc' = "error"
  /\ UNCHANGED <<req, reqBody, res, out, crashed, peer>>

HealthRoute ==
  /\ pc = "route"
  /\ ~crashed
  /\ HealthRouteMatches(req)
  /\ res' = [res EXCEPT !.statusCode = 200, !.headersSent = TRUE,
                        !.ended = TRUE, !.by = "health"]
  /\ pc' = "done"
  /\ UNCHANGED <<req, reqBody, out, crashed, peer>>

\* httpModule.request(requestOptions, ...), proxyRequest.write(requestBody)
\* when requestBody is truthy, proxyRequest.end().
NewRequest(r, body) ==
  LET parsedUrl == ParseURL(FinalTargetUrl(UrlPath(r.url)))
      rb == RequestBody(r.method, body)
  IN  [ state       |-> "open",
        gotResponse |-> FALSE,
        hangUp      |-> FALSE,
        status      |-> 0,
        headers     |-> NoHeaders,
        options     |-> RequestOptions(r.method, r.headers, body, parsedUrl),
        wrote       |-> rb.truthy,
        written     |-> IF rb.truthy THEN rb.bytes ELSE << >> ]

\* The handler with the return missing in front of the 400 of the protocol
\* check: it answers and goes on to issue the outbound request.
ProxyHandlerNoReturn ==
  /\ pc = "route"
  /\ ~crashed
  /\ ~HealthRouteMatches(req)
  /\ ~StarLayerThrows(req)
  /\ IF req.url = Health
       THEN /\ pc' = "skipped"
            /\ UNCHANGED <<res, out>>
     ELSE IF Resolve(req.url) = "Invalid protocol"
       THEN /\ pc' = "waiting"
            /\ res' = SendJson(res, 400, "Invalid protocol", "handler")
            /\ out' = NewRequest(req, reqBody)
     ELSE IF Resolve(req.url) # "forward"
       THEN /\ pc' = "done"
            /\ res' = SendJson(res, ResolveStatus(Resolve(req.url)),
                               ResolveError(Resolve(req.url)), "handler")
            /\ out' = out
     ELSE /\ pc' = "waiting"
          /\ res' = res
          /\ out' = NewRequest(req, reqBody)
  /\ UNCHANGED <<req, reqBody, crashed, peer>>

\* app.use('*', async (req, res) => ...) up to proxyRequest.end().
ProxyHandler ==
  /\ pc = "route"
  /\ ~crashed
  /\ ~HealthRouteMatches(req)
  /\ ~StarLayerThrows(req)
  /\ IF req.url = Health
       THEN /\ pc' = "skipped"
            /\ UNCHANGED <<res, out>>
     ELSE IF Resolve(req.url) # "forward"
       THEN /\ pc' = "done"
            /\ res' = SendJson(res, ResolveStatus(Resolve(req.url)),
                               ResolveError(Resolve(req.url)), "handler")
            /\ out' = out
     ELSE /\ pc' = "waiting"
          /\ res' = res
          /\ out' = NewRequest(req, reqBody)
  /\ UNCHANGED <<req, reqBody, crashed, peer>>

\* A status of 400 or more taken for a failure of the forwarding.
RelayStatusAsFailure(s) == IF s >= 400 THEN 502 ELSE s

\* res.status(proxyResponse.statusCode)
RelayStatus(s) == s

\* The callback of httpModule.request: status and headers are set on res,
\* nothing is sent before the first chunk.
OnResponse ==
  /\ ~crashed
  /\ out.state = "open"
  /\ ~out.gotResponse
  /\ \E s \in TargetStatuses, hdrs \in TargetHeaders :
       /\ res' = [res EXCEPT !.statusCode = RelayStatus(s),
                             !.headers = ResponseHeaders(hdrs)]
       /\ out' = [out EXCEPT !.gotResponse = TRUE, !.status = s,
                             !.headers = hdrs]
  /\ UNCHANGED <<req, pc, reqBody, crashed, peer>>

\* The first res.write() or res.end() of the pipe writes the head, and
\* writeHead throws a RangeError for a status code outside 100..999; the
\* throw is inside the pipe's listener, where nothing catches it.
InvalidStatusCode(s) == s < 100 \/ s > 999

WriteHeadThrows == ~res.headersSent /\ InvalidStatusCode(res.statusCode)

\* proxyResponse.pipe(res): a chunk of the body. A write on a response whose
\* connection is closed returns false and the pipe waits for a 'drain'
\* that never comes.
OnData ==
  /\ ~crashed
  /\ out.state = "open"
  /\ out.gotResponse
  /\ ~res.closed
  /\ res.chunks < MaxChunks
  /\ IF WriteHeadThrows
       THEN /\ crashed' = TRUE
            /\ res' = res
       ELSE /\ crashed' = FALSE
            /\ res' = [res EXCEPT !.headersSent = TRUE, !.chunks = @ + 1,
                                  !.by = "relay"]
  /\ UNCHANGED <<req, pc, reqBody, out, peer>>

\* proxyResponse.pipe(res): the end of the body.
OnEnd ==
  /\ ~crashed
  /\ out.state = "open"
  /\ out.gotResponse
  /\ IF WriteHeadThrows
       THEN /\ crashed' = TRUE
            /\ res' = res
       ELSE /\ crashed' = FALSE
            /\ res' = [res EXCEPT !.headersSent = TRUE, !.ended = TRUE,
                                  !.by = "relay"]
  /\ out' = [out EXCEPT !.state = "finished"]
  /\ UNCHANGED <<req, pc, reqBody, peer>>

\* The codes the outbound request can fail with: any before the response,
\* a broken connection after it, the hang-up that follows destroy().
PossibleErrors ==
  IF out.state = "open"
    THEN IF out.gotResponse THEN {"ECONNRESET", "EPIPE", "ETIMEDOUT"} ELSE ErrorCodes
    ELSE IF out.hangUp THEN {"ECONNRESET"} ELSE {}

\* The error handler answering also when the caller was answered before.
OnErrorAnswersAlways ==
  /\ ~crashed
  /\ \E code \in PossibleErrors :
       /\ crashed' = FALSE
       /\ res' = SendJson(res, ClassifyError(code),
                          StatusError(ClassifyError(code)), code)
  /\ out' = [out EXCEPT !.state = "failed", !.hangUp = FALSE]
  /\ UNCHANGED <<req, pc, reqBody, peer>>

\* proxyRequest.on('error'): res.status().json() throws once the headers
\* are sent, and nothing catches it.
OnError ==
  /\ ~crashed
  /\ \E code \in PossibleErrors :
       IF res.headersSent
         THEN /\ crashed' = TRUE
              /\ res' = res
         ELSE /\ crashed' = FALSE
              /\ res' = SendJson(res, ClassifyError(code),
                                 StatusError(ClassifyError(code)), code)
  /\ out' = [out EXCEPT !.state = "failed", !.hangUp = FALSE]
  /\ UNCHANGED <<req, pc, reqBody, peer>>

\* proxyRequest.on('timeout'): destroy() makes the request emit 'error'
\* (ECONNRESET, socket hang up) when no response has been received.
OnTimeout ==
  /\ ~crashed
  /\ out.state = "open"
  /\ out' = [out EXCEPT !.state = "destroyed", !.hangUp = ~out.gotResponse]
  /\ res' = IF res.headersSent THEN res
            ELSE SendJson(res, 408, "Request timeout", "timeout")
  /\ UNCHANGED <<req, pc, reqBody, crashed, peer>>

Next ==
  \/ Cors
  \/ ParseBody
  \/ ErrorMiddleware
  \/ HealthRoute
  \/ StarLayerError
  \/ ProxyHandler
  \/ OnResponse
  \/ OnData
  \/ OnEnd
  \/ OnError
  \/ OnTimeout

Spec == Init /\ [][Next]_vars

\* ------------------------------------------- the fixed-target variant
\* The sibling program of src/unnamed/part_002: the same middleware, health
\* route and event handlers, and a handler that appends the inbound path to
\* a configured base instead of decoding a URL from it.
TARGET_HOST ==
  <<"h","t","t","p","s",":","/","/",
    "a","p","i",".","e","x","a","m","p","l","e",".","c","o","m">>

\* The base and the path joined without the '/' between them.
TargetUrlNoSlash(urlPath) == TARGET_HOST \o urlPath

\* `${TARGET_HOST}/${urlPath}`
TargetUrl(urlPath) == TARGET_HOST \o <<"/">> \o urlPath

\* httpModule.request(requestOptions, ...), write and end of the variant.
FixedRequest(r, body) ==
  LET parsedUrl == ParseURL(TargetUrl(UrlPath(r.url)))
      rb == RequestBody(r.method, body)
  IN  [ state       |-> "open",
        gotResponse |-> FALSE,
        hangUp      |-> FALSE,
        status      |-> 0,
        headers     |-> NoHeaders,
        options     |-> RequestOptions(r.method, r.headers, body, parsedUrl),
        wrote       |-> rb.truthy,
        written     |-> IF rb.truthy THEN rb.bytes ELSE << >> ]

\* app.use('*', async (req, res) => ...) of the variant: a URL that new URL
\* rejects throws into the catch, which answers 500.
FixedProxyHandler ==
  /\ pc = "route"
  /\ ~crashed
  /\ ~HealthRouteMatches(req)
  /\ ~StarLayerThrows(req)
  /\ IF req.url = Health
       THEN /\ pc' = "skipped"
            /\ UNCHANGED <<res, out>>
     ELSE IF ~ParseURL(TargetUrl(UrlPath(req.url))).ok
       THEN /\ pc' = "done"
            /\ res' = SendJson(res, 500, "Internal server error", "handler")
            /\ out' = out
     ELSE /\ pc' = "waiting"
          /\ res' = res
          /\ out' = FixedRequest(req, reqBody)
  /\ UNCHANGED <<req, reqBody, crashed, peer>>

\* Inbound paths of the variant: plain paths, and paths that spell a URL,
\* a host and port, or an encoded URL where the dynamic proxy expects one.
FixedPrefixes ==
  { << >>,
    <<"x",":","8">>,
    <<"h","t","t","p",":","/","/","x">>,
    encodeURIComponent(<<"h","t","t","p",":","/","/","x">>) }

FixedRequests ==
  { [url |-> <<"/">> \o pre \o t, method |-> "GET",
     headers |-> InboundHeaders("none", NoBody, {}), body |-> NoBody] :
      pre \in FixedPrefixes, t \in TailsUpTo(MaxTail) }
  \cup
  { [url |-> u, method |-> m,
     headers |-> InboundHeaders(CtJson, raw, {}), body |-> raw] :
      u \in {Health, <<"/","p">>}, m \in {"GET", "POST"},
      raw \in {NoBody, Bytes(<<"h","i">>)} }

FixedInit ==
  /\ req \in FixedRequests
  /\ pc = "cors"
  /\ reqBody = [kind |-> "undefined"]
  /\ res = [statusCode |-> 200, headersSent |-> FALSE, ended |-> FALSE,
            error |-> "none", by |-> "none", headers |-> NoHeaders, chunks |-> 0,
            closed |-> FALSE]
  /\ out = NoRequest
  /\ crashed = FALSE
  /\ peer = "none"

FixedNext ==
  \/ Cors
  \/ ParseBody
  \/ ErrorMiddleware
  \/ HealthRoute
  \/ StarLayerError
  \/ FixedProxyHandler
  \/ OnResponse
  \/ OnData
  \/ OnEnd
  \/ OnError
  \/ OnTimeout

FixedSpec == FixedInit /\ [][FixedNext]_vars

\* ------------------------------------------------- the process and the caller
\* The handler registers no listener for 'close' or 'aborted' on req or res:
\* a caller that goes away while its target has not answered leaves the
\* outbound request as it is.
CallerDisconnects ==
  /\ ~crashed
  /\ pc = "waiting"
  /\ out.state = "open"
  /\ ~out.gotResponse
  /\ ~res.closed
  /\ res' = [res EXCEPT !.closed = TRUE]
  /\ UNCHANGED <<req, pc, reqBody, out, crashed, peer>>

\* Another request in flight on the same process gets its answer; a process
\* ended by an uncaught exception answers nobody.
PeerAnswer ==
  /\ ~crashed
  /\ peer = "pending"
  /\ peer' = "answered"
  /\ UNCHANGED <<req, pc, reqBody, res, out, crashed>>

ProcessRequests ==
  { r \in Requests :
      /\ r.method \in {"GET", "POST"}
      /\ "authorization" \notin DOMAIN r.headers
      /\ r.body \in {NoBody, Bytes(<<"h","i">>)}
      /\ \/ r.url \in {PlainTarget, Health}
         \/ StarLayerThrows(r) }

ProcessInit ==
  /\ req \in ProcessRequests
  /\ pc = "cors"
  /\ reqBody = [kind |-> "undefined"]
  /\ res = [statusCode |-> 200, headersSent |-> FALSE, ended |-> FALSE,
            error |-> "none", by |-> "none", headers |-> NoHeaders, chunks |-> 0,
            closed |-> FALSE]
  /\ out = NoRequest
  /\ crashed = FALSE
  /\ peer = "pending"

ProcessNext ==
  \/ Cors
  \/ ParseBody
  \/ ErrorMiddleware
  \/ HealthRoute
  \/ StarLayerError
  \/ ProxyHandler
  \/ OnResponse
  \/ OnData
  \/ OnEnd
  \/ OnError
  \/ OnTimeout
  \/ CallerDisconnects
  \/ PeerAnswer

ProcessSpec == ProcessInit /\ [][ProcessNext]_vars

\* ================================================================ claims
\* The request went into the forwarding pipeline: the proxy handler ran past
\* its /health check and either answered or issued the outbound request.
InPipeline == res.by = "handler" \/ out.state # "none"

Forwarded == out.state # "none"

\* ---- C1
\* C1: every inbound path whose remainder after the leading '/' holds a
\* malformed percent sequence, in its first segment or later, is answered
\* with 400 'Invalid URL encoding' and causes no outbound request.
C1_MalformedEscapeIs400 ==
  (res.headersSent /\ req.method # "OPTIONS" /\ DecodeThrows(UrlPath(req.url)))
    => /\ res.statusCode = 400
       /\ res.error = "Invalid URL encoding"
       /\ ~Forwarded

\* ---- C2
\* C2 as claimed: once the target has returned a response, whatever the
\* caller is sent carries the target's status; no proxy-generated 408, 500
\* or 502 takes its place.
C2_TargetStatusNeverReplaced ==
  (out.gotResponse /\ res.headersSent) => res.statusCode = out.status

\* C2 as amended: the response callback sets the caller-facing status to the
\* target's code, and whenever any part of the target's response is relayed
\* the caller's status is exactly that code.  A proxy-generated 408 or 500
\* (never 502) replaces it only when the outbound request timed out or
\* failed after the target's status arrived and before anything was sent.
C2_RelayedStatusIsTargets ==
  out.gotResponse =>
    IF res.by \in {"none", "relay"}
      THEN res.statusCode = out.status
      ELSE /\ res.by \in {"timeout", "ECONNRESET", "EPIPE", "ETIMEDOUT"}
           /\ res.statusCode \in {408, 500}
           /\ res.chunks = 0
           /\ out.state \in {"destroyed", "failed"}

\* A 404 of the target relayed to its end.
C2_Witness ==
  /\ out.gotResponse
  /\ out.status = 404
  /\ res.by = "relay"
  /\ res.ended
  /\ res.statusCode = 404

\* ---- C3
\* C3: an 'error' of the outbound request while nothing has been sent to the
\* caller answers 408 for ECONNABORTED and ETIMEDOUT, 502 for ENOTFOUND and
\* ECONNREFUSED, and 500 for every other code.
C3_ErrorClassification ==
  [][ (out'.state = "failed" /\ out.state # "failed" /\ ~res.headersSent)
        => /\ res'.headersSent
           /\ res'.by \in ErrorCodes
           /\ res'.error # "none"
           /\ res'.statusCode =
                (CASE res'.by \in {"ECONNABORTED", "ETIMEDOUT"} -> 408
                   [] res'.by \in {"ENOTFOUND", "ECONNREFUSED"} -> 502
                   [] OTHER -> 500) ]_vars

\* A refused connection answered with 502, and a reset one with 500.
C3_Witness ==
  /\ out.state = "failed"
  /\ ~out.gotResponse
  /\ res.by = "ECONNREFUSED"
  /\ res.statusCode = 502

\* ---- C4
\* C4: the content-length sent on the outbound request is the byte length of
\* the body written to it, for every method and every inbound header map.
C4_ContentLengthIsWrittenLength ==
  (Forwarded /\ "content-length" \in DOMAIN out.options.headers)
    => out.options.headers["content-length"] = Len(out.written)

\* ---- C5
\* C5: for POST, PUT, PATCH and DELETE a form-urlencoded inbound body reaches
\* the target as the same form-urlencoded data, so that the outbound body is
\* in the encoding the outbound content-type declares.
C5_FormBodyForwardedAsForm ==
  ( /\ Forwarded
    /\ req.method \in BodyMethods
    /\ req.body.present
    /\ req.body.text # << >>
    /\ ContentType(req.headers) = CtForm )
    => /\ ContentType(out.options.headers) = CtForm
       /\ out.written = req.body.text

\* ---- C6
\* The remainder of the path read as one percent-encoded token.
Token == UrlPath(req.url)

TokenDecodes == Token # << >> /\ ~DecodeThrows(Token)

\* Token is encodeURIComponent(U) for the U it decodes to: no '/', '?' or
\* '&' (nor any other reserved character) is left unencoded in it.
FullyEncoded == TokenDecodes /\ encodeURIComponent(decodeURIComponent(Token)) = Token

\* C6: when the path is '/' followed by the full percent-encoding of an
\* absolute http or https URL U, the request is forwarded to the scheme,
\* host, port, path and query of U, also when U's path itself holds
\* percent-encoded characters.
C6_EncodedUrlRoundTrip ==
  LET U == ParseURL(decodeURIComponent(Token))
  IN  ( /\ InPipeline
        /\ FullyEncoded
        /\ U.ok
        /\ U.protocol \in AllowedProtocols )
        => /\ Forwarded
           /\ out.options.tls = (U.protocol = <<"h","t","t","p","s",":">>)
           /\ out.options.hostname = U.hostname
           /\ out.options.port =
                (IF U.port # << >> THEN ParseInt(U.port)
                 ELSE IF U.protocol = <<"h","t","t","p","s",":">> THEN 443 ELSE 80)
           /\ out.options.path = U.pathname \o U.search
           /\ out.options.headers["host"] = U.host

\* Forwarded from a fully encoded token whose URL has '%2F' in its own path.
C6_Witness ==
  /\ Forwarded
  /\ FullyEncoded
  /\ req.url = <<"/">> \o encodeURIComponent(
                 <<"h","t","t","p",":","/","/","x",":","8","/","%","2","F">>)
  /\ out.options.path = <<"/","%","2","F">>
  /\ out.options.port = 8

\* ---- C7
\* C7: a path that decodes and parses to a URL whose scheme is neither http
\* nor https is answered with 400 'Invalid protocol', and no outbound request
\* is made for it.
C7_OtherSchemeRejected ==
  ( /\ InPipeline
    /\ TokenDecodes
    /\ ParseURL(decodeURIComponent(Token)).ok
    /\ ParseURL(decodeURIComponent(Token)).protocol \notin AllowedProtocols )
    => /\ res.statusCode = 400
       /\ res.error = "Invalid protocol"
       /\ res.by = "handler"
       /\ ~Forwarded

C10_RejectedNeverForwarded ==
  (res.by = "handler" /\ res.statusCode = 400) => out = NoRequest

C10_Witness ==
  /\ res.by = "handler"
  /\ res.statusCode = 400
  /\ res.error = "Invalid protocol"
  /\ pc = "done"

\* ---- C11
\* The inbound headers a proxy must not pass on.
C11_Names ==
  {"connection", "keep-alive", "proxy-authenticate", "proxy-authorization",
   "te", "trailers", "transfer-encoding", "upgrade", "x-forwarded-for",
   "x-forwarded-host", "x-forwarded-proto"}

\* C11: on every forwarded request none of the inbound headers connection,
\* keep-alive, proxy-authenticate, proxy-authorization, te, trailers,
\* transfer-encoding, upgrade, x-forwarded-for, x-forwarded-host,
\* x-forwarded-proto is among the outbound headers, and the outbound host is
\* not the inbound host value (the targets are other hosts than the proxy).
C11_HopHeadersNotForwarded ==
  Forwarded =>
    /\ C11_Names \cap DOMAIN out.options.headers = {}
    /\ out.options.headers["host"] # req.headers["host"]

\* Forwarded for a caller that sent every one of those headers.
C11_Witness ==
  /\ Forwarded
  /\ C11_Names \subseteq DOMAIN req.headers
  /\ req.headers["host"] = ProxyHost
  /\ "authorization" \in DOMAIN out.options.headers

\* ---- C12
\* The host header a client puts on a request to this hostname and port.
C12_HostOf(tls, hostname, port, text) ==
  IF port = (IF tls THEN 443 ELSE 80)
    THEN text = hostname
    ELSE /\ Len(text) > Len(hostname) + 1
         /\ SubSeq(text, 1, Len(hostname)) = hostname
         /\ text[Len(hostname) + 1] = ":"
         /\ SliceFrom(text, Len(hostname) + 2) = StripLeadingZeros(SliceFrom(text, Len(hostname) + 2))
         /\ ParseInt(SliceFrom(text, Len(hostname) + 2)) = port

\* C12: the outbound host header is the host of the resolved target URL,
\* hostname alone when the port contacted is the default one of the scheme
\* and hostname ':' port when it is not.
C12_HostIsTargetHost ==
  Forwarded =>
    /\ out.options.hostname = ParseURL(FinalTargetUrl(Token)).hostname
    /\ C12_HostOf(out.options.tls, out.options.hostname, out.options.port,
                  out.options.headers["host"])

\* A target whose URL spells out the default port 80: the host is 'x'.
C12_Witness ==
  /\ Forwarded
  /\ decodeURIComponent(Token) = <<"h","t","t","p",":","/","/","x",":","8","0","/","p">>
  /\ out.options.port = 80
  /\ out.options.headers["host"] = <<"x">>

\* ---- C13
\* The names header translation may drop, and those it may set.
C13_Dropped == C11_Names \cup {"host"}

C13_Set == {"host", "content-type", "content-length"}

\* C13: every inbound header that is not in the stripped set and is not
\* content-length or content-type is on the outbound request with the value
\* the caller sent, and the outbound request has no header the caller did
\* not send other than host, content-type and content-length.
C13_OtherHeadersUnchanged ==
  Forwarded =>
    /\ \A h \in DOMAIN req.headers \ (C13_Dropped \cup C13_Set) :
         /\ h \in DOMAIN out.options.headers
         /\ out.options.headers[h] = req.headers[h]
    /\ (DOMAIN out.options.headers \ DOMAIN req.headers) \subseteq C13_Set

\* A POST without content-type and with an authorization and a trace id:
\* both go out as sent, content-type and content-length are the only new names.
C13_Witness ==
  /\ Forwarded
  /\ req.method = "POST"
  /\ {"authorization", "x-request-id"} \subseteq DOMAIN req.headers
  /\ "content-type" \notin DOMAIN req.headers
  /\ out.options.headers["authorization"] = req.headers["authorization"]
  /\ out.options.headers["x-request-id"] = req.headers["x-request-id"]
  /\ {"content-type", "content-length"} \subseteq DOMAIN out.options.headers

\* ---- C14
\* C14: body bytes are written to the outbound request only for POST, PUT,
\* PATCH and DELETE; for GET, HEAD and any other method nothing is written,
\* also when the inbound request carried a body.
C14_BodyOnlyForBodyMethods ==
  (Forwarded /\ req.method \notin {"POST", "PUT", "PATCH", "DELETE"})
    => /\ ~out.wrote
       /\ out.written = << >>

\* A GET whose body the raw parser had read, forwarded with nothing written.
C14_Witness ==
  /\ Forwarded
  /\ req.method = "GET"
  /\ req.body.present
  /\ reqBody.kind = "buffer"
  /\ reqBody.bytes = <<"h","i">>
  /\ ~out.wrote

C16_TimeoutAnswers408 ==
  /\ [][ (out.state = "open" /\ out'.state = "destroyed" /\ ~res.headersSent)
           => /\ res'.by = "timeout"
              /\ res'.statusCode = 408
              /\ res'.headersSent
              /\ res'.ended ]_vars
  /\ [][ res.by = "timeout"
           => /\ res'.by = "timeout"
              /\ res'.statusCode = 408
              /\ out'.state \in {"destroyed", "failed"} ]_vars
  /\ [](res.by = "timeout" => out.state \in {"destroyed", "failed"})

\* The timeout answered 408, and the hang-up error of the abort came after.
C16_Witness ==
  /\ res.by = "timeout"
  /\ res.statusCode = 408
  /\ ~out.gotResponse
  /\ out.state = "failed"

\* ---- C17
\* C17: when the outbound exchange fails or times out after the relay of
\* the target's response has begun, no error status or JSON body is written
\* and the caller's connection is eventually terminated: when nothing more
\* can happen, the response has been ended or the connection has been closed
\* with the process; it is not left open for ever.
C17_FailureAfterRelayTerminates ==
  /\ res.by = "relay" => res.error = "none"
  /\ ( /\ res.by = "relay"
       /\ out.state \in {"destroyed", "failed"}
       /\ ~ENABLED Next )
       => (res.ended \/ crashed)

\* ---- C18
\* C18: an exception raised before response headers have been sent, in the
\* handler, in body parsing or in a callback of the outbound request, gives
\* the caller a 500 with the generic JSON error body; no exception goes
\* uncaught while the caller has been sent nothing.
C18_ExceptionBeforeHeadersIs500 ==
  /\ (pc = "done" /\ res.by = "error-middleware")
       => res.statusCode = 500 /\ res.error = "Internal server error"
  /\ (res.by = "handler" /\ Resolve(req.url) = "threw")
       => res.statusCode = 500 /\ res.error = "Internal server error"
  /\ crashed => res.headersSent

\* ---- C19
\* C19: a request whose URL is exactly /health, whatever its method, makes
\* no outbound request and is eventually answered with the liveness payload:
\* once it is past the middleware, nothing more can happen only when the
\* payload has been sent.
C19_HealthAlwaysAnswered ==
  /\ req.url = Health => ~Forwarded
  /\ ( /\ req.url = Health
       /\ pc \notin {"cors", "parse", "error"}
       /\ res.by \notin {"cors", "error-middleware"}
       /\ ~ENABLED Next )
       => (res.ended /\ res.by = "health")

\* ---- C20
\* C20: the URL that is parsed, validated and contacted is the
\* percent-decoding of the whole remainder after the leading '/' as one
\* token: a remainder that decodes is forwarded exactly when that URL parses
\* with an allowed scheme, and then to its host, port, path and query.
C20_WholeRemainderDecoded ==
  LET U == ParseURL(decodeURIComponent(Token))
  IN  (InPipeline /\ TokenDecodes)
        => /\ Forwarded <=> (U.ok /\ U.protocol \in AllowedProtocols)
           /\ Forwarded
                => /\ out.options.hostname = U.hostname
                   /\ out.options.port =
                        (IF U.port # << >> THEN ParseInt(U.port)
                         ELSE IF U.protocol = <<"h","t","t","p","s",":">> THEN 443 ELSE 80)
                   /\ out.options.path = U.pathname \o U.search

\* ---- C21
\* The two parts of the documented form: the encoded base URL, which is the
\* first segment, and the path and query after it as they were received.
C21_Base == decodeURIComponent(TargetBaseUrl(Token))

C21_Rest == TargetPath(Token)

\* The request has the documented form: the first segment decodes to
\* protocol '//' host[:port] of an http or https URL and a path follows it.
C21_DocumentedForm ==
  /\ TokenDecodes
  /\ C21_Rest # << >>
  /\ ~Includes(C21_Base, "?")
  /\ LET U == ParseURL(C21_Base)
     IN  /\ U.ok
         /\ U.protocol \in AllowedProtocols
         /\ Len(C21_Base) > Len(U.protocol) + 2
         /\ SubSeq(C21_Base, 1, Len(U.protocol) + 2) = U.protocol \o <<"/","/">>
         /\ ~Includes(SliceFrom(C21_Base, Len(U.protocol) + 3), "/")

\* A path and query without the '?' of an empty query.
C21_DropEmptyQuery(s) ==
  IF s # << >> /\ IndexOfAny(s, {"?"}, 1) = Len(s)
    THEN SubSeq(s, 1, Len(s) - 1)
    ELSE s

\* C21 as claimed: a request of the documented form is sent to the decoded
\* base, with the path and query after the first '/' exactly as received.
C21_PathExactlyAsReceived ==
  (InPipeline /\ C21_DocumentedForm)
    => /\ Forwarded
       /\ out.options.hostname = ParseURL(C21_Base).hostname
       /\ out.options.path = C21_Rest

\* C21 as amended: a request of the documented form is sent to the host and
\* port of the decoded base with the path and query after the first '/' not
\* percent-decoded and every query parameter kept; the '?' of an empty
\* query is dropped by the URL parser's serialisation.
C21_PathNotDecoded ==
  (InPipeline /\ C21_DocumentedForm)
    => /\ Forwarded
       /\ out.options.tls = (ParseURL(C21_Base).protocol = <<"h","t","t","p","s",":">>)
       /\ out.options.hostname = ParseURL(C21_Base).hostname
       /\ out.options.headers["host"] = ParseURL(C21_Base).host
       /\ out.options.path = C21_DropEmptyQuery(C21_Rest)

\* The path '/%2F' after the encoded base http://x:8 goes out as it came.
C21_Witness ==
  /\ Forwarded
  /\ C21_DocumentedForm
  /\ C21_Base = <<"h","t","t","p",":","/","/","x",":","8">>
  /\ C21_Rest = <<"/","%","2","F">>
  /\ out.options.path = <<"/","%","2","F">>

\* ---- C22
\* C22: on every relayed response none of the target's connection,
\* keep-alive, proxy-authenticate, proxy-authorization, te, trailers,
\* transfer-encoding and upgrade headers is set on the caller-facing
\* response, and every other header of the target, x-forwarded-* included,
\* is set on it with the value the target sent.
C22_ResponseHeadersRelayed ==
  res.by = "relay" =>
    /\ {"connection", "keep-alive", "proxy-authenticate", "proxy-authorization",
        "te", "trailers", "transfer-encoding", "upgrade"}
         \cap DOMAIN res.headers = {}
    /\ \A h \in DOMAIN out.headers \
              {"connection", "keep-alive", "proxy-authenticate",
               "proxy-authorization", "te", "trailers", "transfer-encoding",
               "upgrade"} :
         /\ h \in DOMAIN res.headers
         /\ res.headers[h] = out.headers[h]

\* ---- C23
\* The request has run through the middleware and the handler.
Handled == pc \notin {"cors", "parse", "route"}

\* The request names a target the validation chain accepts.
ValidTarget ==
  /\ ~HealthRouteMatches(req)
  /\ ~StarLayerThrows(req)
  /\ req.url # Health
  /\ Resolve(req.url) = "forward"

\* C23: a request with a valid http or https target is forwarded whatever
\* its payload, a body malformed for its content-type included, and is never
\* answered with an error of the proxy's own making in place of forwarding.
C23_ForwardedWhateverPayload ==
  ( /\ ValidTarget
    /\ req.method # "OPTIONS"
    /\ BodySize(req.body) <= BodyLimit )
    => /\ pc # "error"
       /\ res.by # "error-middleware"
       /\ Handled => Forwarded

\* ---- C24
\* C24: a request whose body is larger than 10 MB is rejected before the
\* translation of headers and body: no outbound request is made for it and
\* the caller is answered with a JSON error.
C24_OversizeBodyRejected ==
  ( /\ BodySize(req.body) > BodyLimit
    /\ ValidTarget
    /\ req.method # "OPTIONS" )
    => /\ ~Forwarded
       /\ (Handled /\ pc # "error")
            => (res.ended /\ res.error # "none")

\* ---- C25
\* C25: a request with a valid target and a method among GET, POST, PUT,
\* PATCH, DELETE, HEAD and OPTIONS causes one outbound request, whose method
\* is the inbound method.
C25_OneOutboundSameMethod ==
  ( /\ ValidTarget
    /\ ~BodyParsers(req.headers, req.body).err
    /\ Handled )
    => /\ Forwarded
       /\ out.options.method = req.method

\* ---- C26
\* C26: in fixed-target mode every outbound request goes to the scheme, host
\* and port of TARGET_HOST, whatever the inbound path spells, and its path
\* is '/' followed by the inbound path and query, not percent-decoded.
C26_FixedTargetOnly ==
  LET T == ParseURL(TARGET_HOST)
  IN  /\ (Handled /\ pc \notin {"skipped", "error"} /\ res.by \notin {"cors", "health", "error-middleware"})
           => Forwarded
      /\ Forwarded
           => /\ out.options.tls = (T.protocol = <<"h","t","t","p","s",":">>)
              /\ out.options.hostname = T.hostname
              /\ out.options.port = 443
              /\ out.options.headers["host"] = T.host
              /\ out.options.path = C21_DropEmptyQuery(<<"/">> \o UrlPath(req.url))

\* The path '/http%3A%2F%2Fx/%2F' went to the configured host as it came.
C26_Witness ==
  /\ Forwarded
  /\ req.url = <<"/">> \o encodeURIComponent(<<"h","t","t","p",":","/","/","x">>)
                     \o <<"/","%","2","F">>
  /\ out.options.hostname = <<"a","p","i",".","e","x","a","m","p","l","e",".","c","o","m">>
  /\ out.options.path = req.url

\* ---- C27
\* C27: under every interleaving of the 'response', 'error' and 'timeout'
\* events, the 'error' that follows the timeout handler's destroy()
\* included, the caller-facing response is started at most once: no event
\* handler answers after the headers were sent, so none raises an uncaught
\* 'headers already sent' fault.
C27_NoAnswerAfterHeadersSent ==
  ~(crashed /\ res.headersSent)

\* ---- C28
\* The statuses a response to a validated request may start with.
C28_Started ==
  /\ res.headersSent
  /\ \/ res.by = "relay" /\ res.statusCode = out.status
     \/ res.by # "relay" /\ res.statusCode \in {408, 502, 500}

\* C28: every request that passed URL validation gets a response started,
\* with the target's status or with 408, 502 or 500, once the outbound
\* exchange has yielded a response, an error or a timeout; when nothing
\* more can happen the request is not pending.
C28_ValidatedRequestAnswered ==
  (Forwarded /\ ~ENABLED Next) => C28_Started

\* ---------------------------------------------------------------------- C29
\* C29: whatever happens in the handling of one request, a failure inside
\* its event handlers included, another request in flight on the same
\* process can still be answered.
C29_PeerUnaffected == (peer = "pending") => ~crashed

\* ---------------------------------------------------------------------- C30
\* C30: once the caller has disconnected, the outbound request is aborted:
\* it does not go on to receive the target's response, to finish, or to be
\* destroyed by the timeout.
C30_DisconnectAbortsOutbound ==
  res.closed => ~(out.gotResponse \/ out.state \in {"finished", "destroyed"})

\* ---------------------------------------------------------------------- C31
\* C31: for the target of a forwarded request, sanitizing the header map
\* that was already translated for it (strip set removed, host rewritten)
\* gives that header map again, both for the map the sanitization produced
\* and for the outbound map with the headers of the body on it.
C31_SanitizeIdempotent ==
  Forwarded =>
    LET parsedUrl  == ParseURL(FinalTargetUrl(UrlPath(req.url)))
        translated == SanitizeHeaders(req.headers, parsedUrl)
    IN  /\ SanitizeHeaders(translated, parsedUrl) = translated
        /\ SanitizeHeaders(out.options.headers, parsedUrl) = out.options.headers

\* A forwarded POST whose caller sent every stripped header: the first pass
\* removed them and the outbound map has a content-length of its own.
C31_Witness ==
  /\ Forwarded
  /\ req.method = "POST"
  /\ StrippedRequestHeaders \subseteq DOMAIN req.headers
  /\ "authorization" \in DOMAIN out.options.headers
  /\ "content-length" \in DOMAIN out.options.headers
  /\ out.options.headers["host"] # req.headers["host"]

\* ---------------------------------------------------------------------- C32
\* The scheme of a URL text, and the port its authority spells out (empty
\* when it names none).
C32_Scheme(u) == LowerAll(SubSeq(u, 1, IndexOfAny(u, {":"}, 1) - 1))

C32_ExplicitPort(u) ==
  LET rest    == SliceFrom(u, IndexOfAny(u, {":"}, 1) + 1)
      a       == SkipSlashes(rest, 1)
      auth    == SubSeq(rest, a, IndexOfAny(rest, {"/", "?"}, a) - 1)
  IN  SliceFrom(auth, IndexOfAny(auth, {":"}, 1) + 1)

\* C32: for every forwarded request TLS is used exactly when the scheme of
\* the target URL is https, and the port contacted is the one the URL
\* spells out, or 443 for https and 80 for http when it spells out none.
C32_TransportFollowsUrl ==
  Forwarded =>
    LET u == FinalTargetUrl(Token)
    IN  /\ out.options.tls = (C32_Scheme(u) = https)
        /\ out.options.port =
             IF C32_ExplicitPort(u) # << >> THEN ParseInt(C32_ExplicitPort(u))
             ELSE IF C32_Scheme(u) = https THEN 443 ELSE 80

\* An https target on port 80: TLS to port 80.
C32_Witness ==
  /\ Forwarded
  /\ C32_Scheme(FinalTargetUrl(Token)) = https
  /\ C32_ExplicitPort(FinalTargetUrl(Token)) = <<"8","0">>
  /\ out.options.tls
  /\ out.options.port = 80

\* ---------------------------------------------------------------------- C33
\* C33: a forwarded POST, PUT, PATCH or DELETE whose inbound request had no
\* body has nothing written to the outbound request, and the outbound
\* headers have no content-length and no content-type the caller did not
\* send.
C33_NoBodyNothingWritten ==
  (Forwarded /\ req.method \in BodyMethods /\ ~req.body.present) =>
    /\ ~out.wrote
    /\ "content-length" \notin DOMAIN out.options.headers
    /\ "content-type" \in DOMAIN out.options.headers
          => "content-type" \in DOMAIN req.headers

====
